---- MODULE Spec2Model ----
(***************************************************************************)
(* The announcement engine of src/main.py: Announcement (lines 16-47),     *)
(* AnnouncementQueue (lines 50-109) and its two callers, the due-checker   *)
(* VoiceAnnouncementApp.check_schedules (lines 1003-1009) and              *)
(* VoiceAnnouncementApp.live_announcement (lines 988-992).                 *)
(* Announcement.get_text (lines 33-37) is a pure function of the template  *)
(* and the variables; it has a specification of its own, SpecRender.       *)
(*                                                                         *)
(* Time is counted in days.  Every statement that reads or writes state    *)
(* shared between execution contexts is one step; the body of a `with      *)
(* self.lock` block is one step taken at the acquisition, and the release  *)
(* is a step of its own, so that the lock is seen held.  _try_play_next    *)
(* runs outside the lock, one source line per step.                        *)
(***************************************************************************)
EXTENDS Integers, Sequences, FiniteSets, TLC

\* ------------------------------------------------------------------ bounds
MaxThreads == 3      \* playback threads created in one run
MaxTicks == 2        \* runs of check_schedules
MaxNow == 2          \* last day the clock reaches
MaxLive == 1         \* calls of live_announcement
MaxLen == 6          \* characters of a text template

\* ------------------------------------------------- program constants
DayInterval == 1     \* timedelta(days=1)
WeekInterval == 7    \* timedelta(weeks=1)
LivePriority == 10   \* Announcement(text, datetime.now(), priority=10)
MaxPriority == 10    \* priority_spin.setRange(1, 10)

None == "None"

\* The announcement instances.  Sched are the ones the schedule dialog holds
\* in its watch list, Live the ones live_announcement creates, one per call.
Sched == {"A", "B", "C", "D"}
Live == {"Z", "L"}
Anns == Sched \cup Live

\* Announcement.priority: A, B, C are the scheduled announcements of the
\* ordering example (priority 1 and 5), D is scheduled with the highest
\* priority the edit dialog offers; Z and L are live announcements as
\* live_announcement creates them.
priority == [a \in Anns |->
    CASE a = "A" -> 1
      [] a = "B" -> 5
      [] a = "C" -> 5
      [] a = "D" -> MaxPriority
      [] a = "Z" -> LivePriority
      [] a = "L" -> LivePriority]

\* Announcement.play_time as constructed (days): A first, then C and D,
\* then B.
PlayTime0 == [a \in Anns |->
    CASE a = "A" -> 0
      [] a = "B" -> 2
      [] a = "C" -> 1
      [] a = "D" -> 1
      [] OTHER -> 0]

\* "repeat_end" of the edit dialog's result; on_save accepts it only when it
\* is not before the play time.  C is the weekly example: first due on day 1,
\* repeat end on day 10.
repeat_end == [a \in Sched |->
    CASE a = "A" -> 0
      [] a = "B" -> 2
      [] a = "C" -> 10
      [] a = "D" -> 1]

\* The repeat policies the watch list is created with (Announcement.repeat):
\* all one-shot, or B daily and C weekly.  Live announcements never repeat.
RepeatConfigs == {
    [a \in Anns |-> None],
    [a \in Anns |-> CASE a = "B" -> "daily" [] a = "C" -> "weekly" [] OTHER -> None] }

\* The contents of the schedule dialog's list when the application starts
\* checking it.
WatchLists == { <<"A", "B", "C">>, <<"A", "D">> }

\* Execution contexts: the timer callback, the live-input handler, and the
\* playback threads _try_play_next creates.
Callers == {"timer", "live"}
ThreadIds == <<"T1", "T2", "T3", "T4", "T5", "T6">>
Threads == {ThreadIds[i] : i \in 1..MaxThreads}
Procs == Callers \cup Threads

VARIABLES
    queue,                 \* AnnouncementQueue.queue
    current_announcement,  \* AnnouncementQueue.current_announcement
    interrupted,           \* AnnouncementQueue.interrupted
    lock,                  \* AnnouncementQueue.lock: its holder, or None
    playing_thread,        \* AnnouncementQueue.playing_thread
    stop_requested,        \* engine.stop() was called and not yet honoured
    status,                \* the last message shown on status_bar
    play_time,             \* Announcement.play_time of every instance
    repeat,                \* Announcement.repeat of every instance
    announcements,         \* ScheduleManagerDialog.announcements (watch list)
    now,                   \* the last value read from datetime.now()
    idx,                   \* position of check_schedules' for loop
    pc,                    \* where each execution context is
    arg,                   \* the announcement a call or a thread was given
    next_ann,              \* _try_play_next's local next_ann
    ret,                   \* where the running _try_play_next returns to
    ticks,                 \* runs of check_schedules so far
    submitted,             \* history: caller Enqueue/Interrupt calls per instance
    enq,                   \* history: arguments of the callers' Enqueue calls
    all_errored,           \* history: every playback so far ended in an error
    idle_calls,            \* history: every caller Enqueue so far found the
                           \* engine idle, and Interrupt was never called
    found_speaking,        \* history: the interrupt_with_live call under way
                           \* found a playback thread still speaking
    text_template,         \* Announcement.text_template of the rendered one
    variables,             \* Announcement.variables of the rendered one
    text                   \* what get_text returned, None before the call

vars == <<queue, current_announcement, interrupted, lock, playing_thread,
          stop_requested, status, play_time, repeat, announcements, now, idx,
          pc, arg, next_ann, ret, ticks, submitted, enq, all_errored,
          idle_calls, found_speaking, text_template, variables, text>>

\* ------------------------------------------------------------- helpers

\* is_alive() true only until the speech ends (mutant of IsAlive).
IsAlive_until_spoken(t) == t # None /\ pc[t] \in {"w93", "w99"}

\* Thread.is_alive(): started and not yet finished.
IsAlive(t) == t # None /\ pc[t] \notin {"unborn", "new", "dead", "raised"}

\* The key without its play_time component (mutant of KeyLess).
KeyLess_priority_only(a, b, pt) == -priority[a] < -priority[b]

\* key=lambda a: (-a.priority, a.play_time), compared as Python tuples.
KeyLess(a, b, pt) ==
    \/ -priority[a] < -priority[b]
    \/ (-priority[a] = -priority[b] /\ pt[a] < pt[b])

\* One insertion of a stable sort: x goes after every element whose key is
\* not greater than its own.
RECURSIVE InsertSorted(_, _, _)
InsertSorted(s, x, pt) ==
    IF s = <<>> THEN <<x>>
    ELSE IF KeyLess(x, Head(s), pt) THEN <<x>> \o s
    ELSE <<Head(s)>> \o InsertSorted(Tail(s), x, pt)

\* add_announcement without its line 65: the list is left as appended
\* (mutant of SortQueue).
SortQueue_not_sorted(s, pt) == s

\* list.sort(key=...): stable, ascending in the key.
RECURSIVE SortQueue(_, _)
SortQueue(s, pt) ==
    IF s = <<>> THEN <<>>
    ELSE InsertSorted(SortQueue(SubSeq(s, 1, Len(s) - 1), pt), s[Len(s)], pt)

\* insert(0, x) that discards what was pending (mutant of insert0).
insert0_dropping_pending(s, x) == <<x>>

\* The announcement put in by key order instead of at position 0 (mutant of
\* insert0).
insert0_by_key(s, x) == SortQueue(<<x>> \o s, play_time)

\* list.insert(0, x)
insert0(s, x) == <<x>> \o s

\* list.remove(x): drops the first element equal to x.
RECURSIVE RemoveFirst(_, _)
RemoveFirst(s, x) ==
    IF s = <<>> THEN <<>>
    ELSE IF Head(s) = x THEN Tail(s)
    ELSE <<Head(s)>> \o RemoveFirst(Tail(s), x)

\* Announcement.is_due
is_due(a, n) == n >= play_time[a]

\* reschedule with the interval subtracted (mutant of reschedule).
reschedule_backward(a) ==
    IF repeat[a] = "daily" THEN play_time[a] - DayInterval
    ELSE IF repeat[a] = "weekly" THEN play_time[a] - WeekInterval
    ELSE play_time[a]

\* reschedule with the weekly branch adding a day (mutant of reschedule).
reschedule_weekly_as_daily(a) ==
    IF repeat[a] # None THEN play_time[a] + DayInterval ELSE play_time[a]

\* Announcement.reschedule: the new play_time
reschedule(a) ==
    IF repeat[a] = "daily" THEN play_time[a] + DayInterval
    ELSE IF repeat[a] = "weekly" THEN play_time[a] + WeekInterval
    ELSE play_time[a]

\* Threads created so far.
Created == {t \in Threads : pc[t] # "unborn"}

\* The engine is idle: nothing pending, no playback thread created and not
\* yet ended, no other call under way.
EngineIdle ==
    /\ queue = <<>>
    /\ \A t \in Threads : pc[t] \in {"unborn", "dead", "raised"}
    /\ Cardinality({q \in Callers : pc[q] # "idle"}) <= 1

\* line 104 also true for an interrupted playback (mutant of is_repeating).
is_repeating_or_interrupted(a) == repeat[a] # None \/ interrupted

\* line 104 without its test: every announcement is re-added (mutant).
is_repeating_always(a) == TRUE

\* `if announcement.repeat:` (line 104)
is_repeating(a) == repeat[a] # None

\* ---------------------------------------------------------------- Init
\* The state after AnnouncementQueue.__init__ (lines 52-59), with the schedule
\* dialog's list filled in and k timer ticks already spent on an empty list
\* (schedule_manager_announcements is [] until the dialog is opened).
EngineInit(k, lists, repeats) ==
    /\ queue = <<>>
    /\ current_announcement = None
    /\ interrupted = FALSE
    /\ lock = None
    /\ playing_thread = None
    /\ stop_requested = FALSE
    /\ status = "none"
    /\ play_time = PlayTime0
    /\ repeat \in repeats
    /\ announcements \in lists
    /\ now = 0
    /\ idx = 0
    /\ pc = [p \in Procs |-> IF p \in Callers THEN "idle" ELSE "unborn"]
    /\ arg = [p \in Procs |-> None]
    /\ next_ann = [p \in Procs |-> None]
    /\ ret = [p \in Procs |-> None]
    /\ ticks = k
    /\ submitted = [a \in Anns |-> 0]
    /\ enq = <<>>
    /\ all_errored = TRUE
    /\ idle_calls = TRUE
    /\ found_speaking = FALSE

\* The engine's state with no announcement rendered yet.
InitAfter(k, lists, repeats) ==
    /\ EngineInit(k, lists, repeats)
    /\ text_template = <<>>
    /\ variables = <<>>
    /\ text = None

\* A watch list together with a repeat configuration of announcements that
\* are in it.
Init ==
    \E l \in WatchLists :
        InitAfter(0, {l}, {r \in RepeatConfigs :
                             \A a \in Sched : r[a] # None => \E i \in DOMAIN l : l[i] = a})

\* ----------------------------------------------- AnnouncementQueue

\* add_announcement, lines 62-65: the lock is taken, the announcement is
\* appended and the whole list is sorted.
add_announcement(p) ==
    /\ pc[p] = "a62"
    /\ lock = None
    /\ lock' = p
    /\ queue' = SortQueue(Append(queue, arg[p]), play_time)
    /\ pc' = [pc EXCEPT ![p] = "a66"]
    /\ IF p \in Callers
       THEN /\ submitted' = [submitted EXCEPT ![arg[p]] = @ + 1]
            /\ enq' = Append(enq, arg[p])
            /\ idle_calls' = (idle_calls /\ EngineIdle)
       ELSE UNCHANGED <<submitted, enq, idle_calls>>
    /\ UNCHANGED <<current_announcement, interrupted, playing_thread,
                   stop_requested, status, play_time, repeat, announcements,
                   now, idx, arg, next_ann, ret, ticks, all_errored,
                   found_speaking, text_template, variables, text>>

\* add_announcement without the end of its `with` block: the lock is kept
\* (mutant of add_release).
add_release_keeps_lock(p) ==
    /\ pc[p] = "a66"
    /\ status' = "queued"
    /\ pc' = [pc EXCEPT ![p] = "t81"]
    /\ UNCHANGED <<queue, current_announcement, interrupted, lock,
                   playing_thread, stop_requested, play_time, repeat,
                   announcements, now, idx, arg, next_ann, ret, ticks,
                   submitted, enq, all_errored, idle_calls,
                   found_speaking, text_template, variables, text>>

\* add_announcement, lines 65-67: the lock is released, the status bar shows
\* "Announcement queued" and _try_play_next is entered.
add_release(p) ==
    /\ pc[p] = "a66"
    /\ lock' = None
    /\ status' = "queued"
    /\ pc' = [pc EXCEPT ![p] = "t81"]
    /\ UNCHANGED <<queue, current_announcement, interrupted, playing_thread,
                   stop_requested, play_time, repeat, announcements, now, idx,
                   arg, next_ann, ret, ticks, submitted, enq, all_errored, idle_calls,
                   found_speaking, text_template, variables, text>>

\* interrupt_with_live, lines 70-76: under the lock, a live playback thread is
\* flagged interrupted and the engine told to stop; the announcement goes to
\* position 0.
interrupt_with_live(p) ==
    /\ pc[p] = "i70"
    /\ lock = None
    /\ lock' = p
    /\ IF IsAlive(playing_thread)
       THEN interrupted' = TRUE /\ stop_requested' = TRUE
       ELSE UNCHANGED <<interrupted, stop_requested>>
    /\ queue' = insert0(queue, arg[p])
    /\ submitted' = [submitted EXCEPT ![arg[p]] = @ + 1]
    /\ idle_calls' = FALSE
    /\ found_speaking' = (\E t \in Threads : pc[t] \in {"w93", "w99"})
    /\ pc' = [pc EXCEPT ![p] = "i77"]
    /\ UNCHANGED <<current_announcement, playing_thread, status, play_time,
                   repeat, announcements, now, idx, arg, next_ann, ret, ticks,
                   enq, all_errored, text_template, variables, text>>

\* interrupt_with_live, lines 76-78: release, status message, _try_play_next.
interrupt_release(p) ==
    /\ pc[p] = "i77"
    /\ lock' = None
    /\ status' = "live"
    /\ pc' = [pc EXCEPT ![p] = "t81"]
    /\ UNCHANGED <<queue, current_announcement, interrupted, playing_thread,
                   stop_requested, play_time, repeat, announcements, now, idx,
                   arg, next_ann, ret, ticks, submitted, enq, all_errored, idle_calls,
                   found_speaking, text_template, variables, text>>

\* _try_play_next, lines 81-82: return when the playing thread is alive.
try_alive(p) ==
    /\ pc[p] = "t81"
    /\ pc' = [pc EXCEPT ![p] = IF IsAlive(playing_thread) THEN ret[p] ELSE "t83"]
    /\ found_speaking' = (found_speaking /\ pc'["live"] # "idle")
    /\ UNCHANGED <<queue, current_announcement, interrupted, lock,
                   playing_thread, stop_requested, status, play_time, repeat,
                   announcements, now, idx, arg, next_ann, ret, ticks,
                   submitted, enq, all_errored, idle_calls,
                   text_template, variables, text>>

\* _try_play_next, lines 83-84: return when the list is empty.
try_empty(p) ==
    /\ pc[p] = "t83"
    /\ pc' = [pc EXCEPT ![p] = IF queue = <<>> THEN ret[p] ELSE "t85"]
    /\ found_speaking' = (found_speaking /\ pc'["live"] # "idle")
    /\ UNCHANGED <<queue, current_announcement, interrupted, lock,
                   playing_thread, stop_requested, status, play_time, repeat,
                   announcements, now, idx, arg, next_ann, ret, ticks,
                   submitted, enq, all_errored, idle_calls,
                   text_template, variables, text>>

\* _try_play_next, line 85: queue.pop(0); IndexError on an empty list ends the
\* call (and the thread, when a playback thread made it).
try_pop(p) ==
    /\ pc[p] = "t85"
    /\ IF queue = <<>>
       THEN /\ pc' = [pc EXCEPT ![p] = "raised"]
            /\ UNCHANGED <<queue, next_ann>>
       ELSE /\ next_ann' = [next_ann EXCEPT ![p] = Head(queue)]
            /\ queue' = Tail(queue)
            /\ pc' = [pc EXCEPT ![p] = "t86"]
    /\ UNCHANGED <<current_announcement, interrupted, lock, playing_thread,
                   stop_requested, status, play_time, repeat, announcements,
                   now, idx, arg, ret, ticks, submitted, enq, all_errored, idle_calls,
                   found_speaking, text_template, variables, text>>

\* _try_play_next, line 86
try_current(p) ==
    /\ pc[p] = "t86"
    /\ current_announcement' = next_ann[p]
    /\ pc' = [pc EXCEPT ![p] = "t87"]
    /\ UNCHANGED <<queue, interrupted, lock, playing_thread, stop_requested,
                   status, play_time, repeat, announcements, now, idx, arg,
                   next_ann, ret, ticks, submitted, enq, all_errored, idle_calls,
                   found_speaking, text_template, variables, text>>

\* _try_play_next, line 87
try_clear(p) ==
    /\ pc[p] = "t87"
    /\ interrupted' = FALSE
    /\ pc' = [pc EXCEPT ![p] = "t88"]
    /\ UNCHANGED <<queue, current_announcement, lock, playing_thread,
                   stop_requested, status, play_time, repeat, announcements,
                   now, idx, arg, next_ann, ret, ticks, submitted, enq,
                   all_errored, idle_calls,
                   found_speaking, text_template, variables, text>>

\* _try_play_next, line 88: a new Thread object for next_ann becomes
\* playing_thread; it is not started yet.
try_thread(p) ==
    /\ pc[p] = "t88"
    /\ Cardinality(Created) < MaxThreads
    /\ LET t == ThreadIds[Cardinality(Created) + 1] IN
         /\ playing_thread' = t
         /\ pc' = [pc EXCEPT ![p] = "t89", ![t] = "new"]
         /\ arg' = [arg EXCEPT ![t] = next_ann[p]]
    /\ next_ann' = [next_ann EXCEPT ![p] = None]
    /\ UNCHANGED <<queue, current_announcement, interrupted, lock,
                   stop_requested, status, play_time, repeat, announcements,
                   now, idx, ret, ticks, submitted, enq, all_errored, idle_calls,
                   found_speaking, text_template, variables, text>>

\* _try_play_next, line 89: self.playing_thread.start() starts whatever thread
\* the attribute names now; starting a started thread raises RuntimeError.
try_start(p) ==
    /\ pc[p] = "t89"
    /\ IF pc[playing_thread] = "new"
       THEN pc' = [pc EXCEPT ![p] = ret[p], ![playing_thread] = "w93"]
       ELSE pc' = [pc EXCEPT ![p] = "raised"]
    /\ found_speaking' = (found_speaking /\ pc'["live"] # "idle")
    /\ UNCHANGED <<queue, current_announcement, interrupted, lock,
                   playing_thread, stop_requested, status, play_time, repeat,
                   announcements, now, idx, arg, next_ann, ret, ticks,
                   submitted, enq, all_errored, idle_calls,
                   text_template, variables, text>>

\* _play_announcement, lines 93-98: voice, rate, volume, the "Playing" status
\* message; the thread then is inside engine.say / engine.runAndWait.
play_begin(t) ==
    /\ pc[t] = "w93"
    /\ status' = "playing"
    /\ pc' = [pc EXCEPT ![t] = "w99"]
    /\ UNCHANGED <<queue, current_announcement, interrupted, lock,
                   playing_thread, stop_requested, play_time, repeat,
                   announcements, now, idx, arg, next_ann, ret, ticks,
                   submitted, enq, all_errored, idle_calls,
                   found_speaking, text_template, variables, text>>

\* _play_announcement, lines 99-101: runAndWait returns (to the end or after a
\* stop) or raises; an exception is shown on the status bar.
play_end(t) ==
    /\ pc[t] = "w99"
    /\ \E err \in BOOLEAN :
         /\ status' = IF err THEN "error" ELSE status
         /\ all_errored' = (all_errored /\ err)
    /\ stop_requested' = FALSE
    /\ pc' = [pc EXCEPT ![t] = "w104"]
    /\ UNCHANGED <<queue, current_announcement, interrupted, lock,
                   playing_thread, play_time, repeat, announcements, now, idx,
                   arg, next_ann, ret, ticks, submitted, enq, idle_calls,
                   found_speaking, text_template, variables, text>>

\* Lines 104-106 run inside `with self.lock:` (mutant of play_reschedule).
play_reschedule_holding_lock(t) ==
    /\ pc[t] = "w104"
    /\ lock = None
    /\ IF is_repeating(arg[t])
       THEN /\ play_time' = [play_time EXCEPT ![arg[t]] = reschedule(arg[t])]
            /\ lock' = t
            /\ pc' = [pc EXCEPT ![t] = "a62"]
            /\ ret' = [ret EXCEPT ![t] = "w108"]
       ELSE /\ pc' = [pc EXCEPT ![t] = "w108"]
            /\ UNCHANGED <<play_time, ret, lock>>
    /\ UNCHANGED <<queue, current_announcement, interrupted,
                   playing_thread, stop_requested, status, repeat,
                   announcements, now, idx, arg, next_ann, ticks, submitted,
                   enq, all_errored, idle_calls,
                   found_speaking, text_template, variables, text>>

\* _play_announcement, lines 104-106: a repeating announcement is rescheduled
\* and add_announcement is called with it.
play_reschedule(t) ==
    /\ pc[t] = "w104"
    /\ IF is_repeating(arg[t])
       THEN /\ play_time' = [play_time EXCEPT ![arg[t]] = reschedule(arg[t])]
            /\ pc' = [pc EXCEPT ![t] = "a62"]
            /\ ret' = [ret EXCEPT ![t] = "w108"]
       ELSE /\ pc' = [pc EXCEPT ![t] = "w108"]
            /\ UNCHANGED <<play_time, ret>>
    /\ UNCHANGED <<queue, current_announcement, interrupted, lock,
                   playing_thread, stop_requested, status, repeat,
                   announcements, now, idx, arg, next_ann, ticks, submitted,
                   enq, all_errored, idle_calls,
                   found_speaking, text_template, variables, text>>

\* _play_announcement, lines 108-109: current is cleared and _try_play_next
\* is called; the thread ends when it returns.
play_clear(t) ==
    /\ pc[t] = "w108"
    /\ current_announcement' = None
    /\ pc' = [pc EXCEPT ![t] = "t81"]
    /\ ret' = [ret EXCEPT ![t] = "dead"]
    /\ UNCHANGED <<queue, interrupted, lock, playing_thread, stop_requested,
                   status, play_time, repeat, announcements, now, idx, arg,
                   next_ann, ticks, submitted, enq, all_errored, idle_calls,
                   found_speaking, text_template, variables, text>>

\* ------------------------------------------------ VoiceAnnouncementApp

\* check_schedules, line 1004: the timer fires and the clock is read.
check_schedules(p) ==
    /\ p = "timer"
    /\ pc[p] = "idle"
    /\ ticks < MaxTicks
    /\ ticks' = ticks + 1
    /\ \E n \in now..MaxNow : now' = n
    /\ idx' = 1
    /\ pc' = [pc EXCEPT ![p] = "cs1005"]
    /\ UNCHANGED <<queue, current_announcement, interrupted, lock,
                   playing_thread, stop_requested, status, play_time, repeat,
                   announcements, arg, next_ann, ret, submitted, enq,
                   all_errored, idle_calls,
                   found_speaking, text_template, variables, text>>

\* check_schedules, lines 1005-1007: the for loop takes the element at its
\* position and moves on; a due announcement is handed to add_announcement.
check_next(p) ==
    /\ p = "timer"
    /\ pc[p] = "cs1005"
    /\ IF idx > Len(announcements)
       THEN /\ pc' = [pc EXCEPT ![p] = "idle"]
            /\ idx' = 0
            /\ arg' = [arg EXCEPT ![p] = None]
            /\ UNCHANGED ret
       ELSE /\ idx' = idx + 1
            /\ IF is_due(announcements[idx], now)
               THEN /\ arg' = [arg EXCEPT ![p] = announcements[idx]]
                    /\ ret' = [ret EXCEPT ![p] = "cs1008"]
                    /\ pc' = [pc EXCEPT ![p] = "a62"]
               ELSE UNCHANGED <<arg, ret, pc>>
    /\ UNCHANGED <<queue, current_announcement, interrupted, lock,
                   playing_thread, stop_requested, status, play_time, repeat,
                   announcements, now, next_ann, ticks, submitted, enq,
                   all_errored, idle_calls,
                   found_speaking, text_template, variables, text>>

\* check_schedules, lines 1008-1009: a one-shot announcement is removed from
\* the list the loop is iterating over.
check_remove(p) ==
    /\ p = "timer"
    /\ pc[p] = "cs1008"
    /\ announcements' = IF repeat[arg[p]] = None
                        THEN RemoveFirst(announcements, arg[p])
                        ELSE announcements
    /\ pc' = [pc EXCEPT ![p] = "cs1005"]
    /\ UNCHANGED <<queue, current_announcement, interrupted, lock,
                   playing_thread, stop_requested, status, play_time, repeat,
                   now, idx, arg, next_ann, ret, ticks, submitted, enq,
                   all_errored, idle_calls,
                   found_speaking, text_template, variables, text>>

\* live_announcement, lines 991-992: a new one-shot announcement with
\* play_time = datetime.now() is passed to interrupt_with_live.  The first
\* call creates Z, the second L.
live_announcement(p) ==
    /\ p = "live"
    /\ pc[p] = "idle"
    /\ Cardinality({z \in Live : submitted[z] > 0}) < MaxLive
    /\ \E z \in Live, n \in now..MaxNow :
         /\ submitted[z] = 0
         /\ (z = "L" => submitted["Z"] > 0)
         /\ arg' = [arg EXCEPT ![p] = z]
         /\ now' = n
         /\ play_time' = [play_time EXCEPT ![z] = n]
    /\ ret' = [ret EXCEPT ![p] = "idle"]
    /\ pc' = [pc EXCEPT ![p] = "i70"]
    /\ UNCHANGED <<queue, current_announcement, interrupted, lock,
                   playing_thread, stop_requested, status, repeat,
                   announcements, idx, next_ann, ticks, submitted, enq,
                   all_errored, idle_calls,
                   found_speaking, text_template, variables, text>>

\* ---------------------------------------------------------------- Next

\* Both callers are slots of the application's one Qt thread, which runs a
\* slot to its end before the next one: a call starts when no other is running.
UIFree == \A q \in Callers : pc[q] = "idle"

\* The steps of the engine and of a running check_schedules.
Engine ==
    \/ \E p \in Procs : add_announcement(p)
    \/ \E p \in Procs : add_release(p)
    \/ \E p \in Callers : interrupt_with_live(p)
    \/ \E p \in Callers : interrupt_release(p)
    \/ \E p \in Procs : try_alive(p)
    \/ \E p \in Procs : try_empty(p)
    \/ \E p \in Procs : try_pop(p)
    \/ \E p \in Procs : try_current(p)
    \/ \E p \in Procs : try_clear(p)
    \/ \E p \in Procs : try_thread(p)
    \/ \E p \in Procs : try_start(p)
    \/ \E t \in Threads : play_begin(t)
    \/ \E t \in Threads : play_end(t)
    \/ \E t \in Threads : play_reschedule(t)
    \/ \E t \in Threads : play_clear(t)
    \/ \E p \in Callers : check_next(p)
    \/ \E p \in Callers : check_remove(p)

\* The application as written: the timer slot and the live-input slot run one
\* at a time, concurrently with the playback threads.
Next ==
    \/ \E p \in Callers : UIFree /\ check_schedules(p)
    \/ \E p \in Callers : UIFree /\ live_announcement(p)
    \/ Engine

Spec == Init /\ [][Next]_vars

\* The engine called from different calling contexts at once: the timer
\* callback and the live-input handler run concurrently.
NextConcurrent ==
    \/ \E p \in Callers : check_schedules(p)
    \/ \E p \in Callers : live_announcement(p)
    \/ Engine

InitConcurrent == InitAfter(MaxTicks - 1, {<<"C", "A">>}, RepeatConfigs)

SpecConcurrent == InitConcurrent /\ [][NextConcurrent]_vars

\* ------------------------------------------------ Announcement.get_text

\* The characters of a template: the two braces, a letter and a digit.  A
\* template is a sequence of them.
Chars == {"{", "}", "x", "0"}
Digits == {"0"}

RECURSIVE SeqsUpTo(_)
SeqsUpTo(n) ==
    IF n = 0 THEN {<<>>}
    ELSE LET S == SeqsUpTo(n - 1)
         IN S \cup {Append(s, c) : s \in {u \in S : Len(u) = n - 1}, c \in Chars}

Templates == SeqsUpTo(MaxLen)

\* The variables the edit dialog can build from "key=value" lines with the keys
\* x and 0: a mapping from one-character names to strings.
Value == [k \in {<<"x">>, <<"0">>} |-> IF k = <<"x">> THEN <<"a">> ELSE <<"b">>]
VariableMaps == {[k \in K |-> Value[k]] : K \in SUBSET DOMAIN Value}

\* What str.format ends with when it raises (KeyError, IndexError, ValueError).
FormatError == "Exception"

\* Position of the first "}" of s at or after i with no "{" before it, 0 when
\* there is none: the end of a replacement field that started before i.
RECURSIVE FieldEnd(_, _)
FieldEnd(s, i) ==
    IF i > Len(s) THEN 0
    ELSE IF s[i] = "}" THEN i
    ELSE IF s[i] = "{" THEN 0
    ELSE FieldEnd(s, i + 1)

\* str.format(**v) from position i of s on: "{{" and "}}" give one brace; a
\* field "{name}" gives v[name]; a single "}", an unclosed "{", a "{" inside a
\* field (ValueError), an empty or all-digit name (IndexError: there are no
\* positional arguments) and a name that is no key of v (KeyError) raise.
RECURSIVE Format(_, _, _)
Format(s, i, v) ==
    IF i > Len(s) THEN <<>>
    ELSE IF s[i] \notin {"{", "}"}
    THEN LET rest == Format(s, i + 1, v)
         IN IF rest = FormatError THEN FormatError ELSE <<s[i]>> \o rest
    ELSE IF i < Len(s) /\ s[i + 1] = s[i]
    THEN LET rest == Format(s, i + 2, v)
         IN IF rest = FormatError THEN FormatError ELSE <<s[i]>> \o rest
    ELSE IF s[i] = "}" THEN FormatError
    ELSE LET j == FieldEnd(s, i + 1)
             name == SubSeq(s, i + 1, j - 1)
         IN IF j = 0 THEN FormatError
            ELSE IF \A k \in DOMAIN name : name[k] \in Digits THEN FormatError
            ELSE IF name \notin DOMAIN v THEN FormatError
            ELSE LET rest == Format(s, j + 1, v)
                 IN IF rest = FormatError THEN FormatError ELSE v[name] \o rest

\* get_text without its except clause (mutant of get_text).
get_text_uncaught(tmpl, v) == Format(tmpl, 1, v)

\* Announcement.get_text: the formatted template, or the template itself when
\* formatting raised.
get_text(tmpl, v) ==
    LET r == Format(tmpl, 1, v)
    IN IF r = FormatError THEN tmpl ELSE r

\* An announcement is constructed with a template and variables; the engine
\* does nothing.
InitRender ==
    /\ EngineInit(0, {<<>>}, {[a \in Anns |-> None]})
    /\ text_template \in Templates
    /\ variables \in VariableMaps
    /\ text = None

\* announcement.get_text() is called (lines 66 and 96).
call_get_text ==
    /\ text = None
    /\ text' = get_text(text_template, variables)
    /\ UNCHANGED <<queue, current_announcement, interrupted, lock,
                   playing_thread, stop_requested, status, play_time, repeat,
                   announcements, now, idx, pc, arg, next_ann, ret, ticks,
                   submitted, enq, all_errored, idle_calls, found_speaking,
                   text_template, variables>>

NextRender == call_get_text

SpecRender == InitRender /\ [][NextRender]_vars

\* ============================================================ properties

\* Occurrences of a in the sequence s.
Count(s, a) == Cardinality({i \in DOMAIN s : s[i] = a})

\* The announcements in the order they were taken for playback: thread
\* objects are numbered in the order line 88 creates them.
PlayOrder == [i \in 1..Cardinality(Created) |-> arg[ThreadIds[i]]]

IsPrefix(s, t) == Len(s) <= Len(t) /\ \A i \in DOMAIN s : s[i] = t[i]

\* The order the specification asks for, written out on its own: a comes
\* before b when its priority is higher, or equal with an earlier playTime.
Before(a, b) ==
    \/ priority[a] > priority[b]
    \/ (priority[a] = priority[b] /\ play_time[a] < play_time[b])

\* s sorted by (-priority, playTime), equal keys in the order of s: the first
\* element no other comes before is taken, again and again.
RECURSIVE InSpecOrder(_)
InSpecOrder(s) ==
    IF s = <<>> THEN <<>>
    ELSE LET i == CHOOSE k \in DOMAIN s :
                    /\ \A j \in DOMAIN s : ~Before(s[j], s[k])
                    /\ \A j \in 1..(k - 1) : Before(s[k], s[j])
         IN <<s[i]>> \o InSpecOrder(SubSeq(s, 1, i - 1) \o SubSeq(s, i + 1, Len(s)))

\* No call is under way and no playback thread exists that has not ended.
Quiescent ==
    /\ \A q \in Callers : pc[q] = "idle"
    /\ \A t \in Threads : pc[t] \in {"unborn", "dead"}

\* The first playback has been started and its speech has not ended.
FirstPlaybackRunning ==
    /\ pc[ThreadIds[1]] \in {"new", "w93", "w99"}
    /\ Cardinality(Created) = 1

NoInterrupt == \A z \in Live : submitted[z] = 0

\* C1 (as stated): for every sequence of Enqueue calls made while the engine
\* is idle, the announcements are played in that sequence's order sorted by
\* (-priority, playTime), ties in enqueue order.
C1_PlayOrderIsSortedEnqueues ==
    (idle_calls /\ NoInterrupt) => IsPrefix(PlayOrder, InSpecOrder(enq))

\* C1 (amended): an Enqueue that finds the engine idle starts its own
\* announcement at once; the announcements enqueued while that first playback
\* is speaking are pending in (-priority, playTime) order, ties in enqueue
\* order.
C1_FirstStartsRestSorted ==
    (NoInterrupt /\ FirstPlaybackRunning)
        => /\ enq # <<>>
           /\ PlayOrder = <<enq[1]>>
           /\ queue = InSpecOrder(Tail(enq))

\* C1 witness: A, B, C were enqueued in this order; A is being spoken and the
\* pending list is C, B.
C1_Witness ==
    /\ NoInterrupt
    /\ FirstPlaybackRunning
    /\ pc[ThreadIds[1]] = "w99"
    /\ enq = <<"A", "B", "C">>
    /\ PlayOrder = <<"A">>
    /\ queue = <<"C", "B">>

\* C2: whenever an announcement is dequeued while an Interrupt argument is
\* pending, the dequeued announcement is that argument: nothing else starts
\* between the Interrupt call and the start of its argument.
C2_InterruptArgumentPlaysNext ==
    [][\A p \in Procs :
          (pc[p] = "t85" /\ pc'[p] = "t86" /\ \E i \in DOMAIN queue : queue[i] \in Live)
              => next_ann'[p] \in Live]_vars

\* C3: the engine is idle only when the pending list is empty: when every
\* call has returned and every playback thread has ended, nothing is pending.
C3_IdleOnlyWhenEmpty == Quiescent => queue = <<>>

\* C4: at most one playback thread is inside the Speech Sink call
\* (engine.say / engine.runAndWait) at any time.
C4_OneSpeakingWorker == Cardinality({t \in Threads : pc[t] = "w99"}) <= 1

\* Announcements put on the pending list so far: by the callers, and by the
\* completion handling of recurring ones.
RECURSIVE QueuedIn(_)
QueuedIn(S) ==
    IF S = {} THEN 0
    ELSE LET a == CHOOSE x \in S : TRUE
         IN submitted[a]
              + Cardinality({t \in Created : arg[t] = a /\ repeat[a] # None
                                /\ pc[t] \notin {"new", "w93", "w99", "w104", "a62"}})
              + QueuedIn(S \ {a})

\* C5: when every playback ended in an error, the engine comes to rest with an
\* empty pending list and exactly one completed playback per announcement
\* that was queued.
C5_ErrorsDrainQueue ==
    (Quiescent /\ all_errored)
        => /\ queue = <<>>
           /\ Cardinality({t \in Threads : pc[t] = "dead"}) = QueuedIn(Anns)

\* The interval the specification names for each repeat policy, in days.
SpecInterval(a) ==
    IF repeat[a] = "daily" THEN 1 ELSE IF repeat[a] = "weekly" THEN 7 ELSE 0

\* Playback threads of a whose completion handling is past line 105
\* (reschedule), and past line 106 (the re-enqueue under the lock).
PastReschedule(a) ==
    {t \in Created : arg[t] = a /\ pc[t] \notin {"new", "w93", "w99", "w104"}}
PastReAdd(a) ==
    {t \in PastReschedule(a) : repeat[a] # None /\ pc[t] # "a62"}

\* Times a has been taken off the pending list: once per thread object made
\* for it, and once per _try_play_next that holds it between lines 85 and 88.
Dequeued(a) ==
    Cardinality({t \in Created : arg[t] = a})
        + Cardinality({p \in Procs : next_ann[p] = a})

\* C6: each completed playback of a recurring announcement moves its playTime
\* by exactly one day (daily) or one week (weekly) and puts it back on the
\* pending list once.
C6_RescheduledByOneInterval ==
    \A a \in Sched :
        /\ play_time[a] = PlayTime0[a] + SpecInterval(a) * Cardinality(PastReschedule(a))
        /\ repeat[a] # None =>
              Count(queue, a) + Dequeued(a) = submitted[a] + Cardinality(PastReAdd(a))

\* C6 witness: the daily B and the weekly C have each completed one playback
\* and are pending again, a day and a week later.
C6_Witness ==
    /\ repeat["B"] = "daily" /\ repeat["C"] = "weekly"
    /\ play_time["B"] = PlayTime0["B"] + 1 /\ play_time["C"] = PlayTime0["C"] + 7
    /\ Count(queue, "B") > 0 /\ Count(queue, "C") > 0
    /\ \E t \in Threads : arg[t] = "B" /\ pc[t] = "dead"
    /\ \E t \in Threads : arg[t] = "C" /\ pc[t] = "dead"

\* C7: a recurring announcement is not put back on the pending list by its
\* completion handling when its next playTime is after its repeat end.
C7_NoReEnqueuePastRepeatEnd ==
    \A t \in Threads :
        pc[t] = "a66" => play_time[arg[t]] <= repeat_end[arg[t]]

\* C8: a one-shot announcement is on the pending list or taken for playback
\* at most once per Enqueue/Interrupt call that submitted it: the engine never
\* puts it back.
C8_OneShotNeverReEnqueued ==
    \A a \in Anns :
        repeat[a] = None => Count(queue, a) + Dequeued(a) <= submitted[a]

\* C8 witness: a one-shot announcement has been played to the end of its
\* completion handling and is neither pending nor current.
C8_Witness ==
    \E t \in Threads :
        /\ pc[t] = "dead"
        /\ repeat[arg[t]] = None
        /\ Count(queue, arg[t]) = 0
        /\ current_announcement # arg[t]
        /\ submitted[arg[t]] = 1

\* C9: an announcement instance is on the pending list at most once, and
\* never while it is the current announcement.
C9_NoInstanceQueuedTwice ==
    \A a \in Anns :
        /\ Count(queue, a) <= 1
        /\ current_announcement = a => Count(queue, a) = 0

\* C10: the current announcement is never the head of the pending list.
C10_CurrentIsNotPendingHead ==
    queue # <<>> => current_announcement # Head(queue)

\* C11: every step that changes the pending list, the current-announcement
\* reference or the interrupted flag is taken by an execution context that
\* holds the engine's lock.
C11_SharedStateOnlyUnderLock ==
    [][\A p \in Procs :
          (/\ pc'[p] # pc[p]
           /\ \/ queue' # queue
              \/ current_announcement' # current_announcement
              \/ interrupted' # interrupted)
              => lock' = p]_vars

\* Playback threads made for the announcement a.
StartedFor(a) == {t \in Created : arg[t] = a}

\* C12: an Interrupt that meets the end of the current playback leaves exactly
\* one dequeue of its argument behind: once every call has returned and every
\* playback thread has ended, each Interrupt argument has been started
\* exactly once, neither skipped nor started twice.
C12_InterruptArgumentStartedOnce ==
    Quiescent =>
        \A z \in Live : submitted[z] > 0 => Cardinality(StartedFor(z)) = 1

\* C13: whoever holds the lock is inside one of the two locked blocks (the
\* list mutation of add_announcement or interrupt_with_live) and releases it
\* with its next step; no thread holds it in the Speech Sink call or anywhere
\* in _play_announcement's own code, so a call that arrives during a playback
\* waits for a list mutation only.
C13_LockHeldOnlyForListMutation ==
    lock # None => pc[lock] \in {"a66", "i77"}

\* C13 witness: a caller holds the lock while a playback thread is inside the
\* Speech Sink call, and the interrupting call has returned while that
\* playback was still speaking.
C13_Witness ==
    /\ \E t \in Threads : pc[t] = "w99"
    /\ lock = "timer"
    /\ submitted["Z"] = 1
    /\ pc["live"] = "idle"

\* The specification's Render, written out on its own.  A placeholder is
\* "{name}" with a non-empty name free of braces; any other brace is a
\* malformed placeholder.  The result from position i on, or "unmodified"
\* when a placeholder is malformed or has no value in v.
RECURSIVE Substituted(_, _, _)
Substituted(s, i, v) ==
    IF i > Len(s) THEN <<>>
    ELSE LET j == FieldEnd(s, i + 1)
             ahead == IF s[i] = "{" /\ j > i + 1 THEN j + 1 ELSE i + 1
             piece == IF s[i] \notin {"{", "}"} THEN <<s[i]>>
                      ELSE IF s[i] = "{" /\ j > i + 1
                                /\ SubSeq(s, i + 1, j - 1) \in DOMAIN v
                      THEN v[SubSeq(s, i + 1, j - 1)]
                      ELSE "unmodified"
             rest == Substituted(s, ahead, v)
         IN IF piece = "unmodified" \/ rest = "unmodified"
            THEN "unmodified" ELSE piece \o rest

Render(s, v) ==
    IF Substituted(s, 1, v) = "unmodified" THEN s ELSE Substituted(s, 1, v)

Plain(s) ==
    /\ \A i \in 1..(Len(s) - 1) : s[i] \in {"{", "}"} => s[i + 1] # s[i]
    /\ \A i \in DOMAIN s :
          (s[i] = "{" /\ FieldEnd(s, i + 1) > i + 1)
              => \E k \in (i + 1)..(FieldEnd(s, i + 1) - 1) : s[k] \notin Digits

C15_DueOneShotsLeaveWatchList ==
    [][(pc["timer"] = "cs1005" /\ pc'["timer"] = "idle")
          => \A i \in DOMAIN announcements :
                is_due(announcements[i], now) => repeat[announcements[i]] # None]_vars

\* C16: the step of interrupt_with_live that inserts leaves its argument at
\* the head of the pending list and the announcements pending before behind
\* it, in the order they had.
C16_InterruptInsertsAtFront ==
    [][\A p \in Procs :
          (pc[p] = "i70" /\ pc'[p] = "i77")
              => /\ Head(queue') = arg[p]
                 /\ Tail(queue') = queue]_vars

\* C16 witness: Z has just been inserted in front of the pending D, which
\* comes before Z in the (-priority, playTime) order.
C16_Witness ==
    /\ pc["live"] = "i77"
    /\ queue = <<"Z", "D">>
    /\ Before("D", "Z")

\* C17: the step of add_announcement that inserts leaves the whole pending
\* list ordered by (-priority, playTime), equal keys in their previous order,
\* whatever order it had before.
C17_EnqueueSortsWholeList ==
    [][\A p \in Procs :
          (pc[p] = "a62" /\ pc'[p] = "a66")
              => queue' = InSpecOrder(Append(queue, arg[p]))]_vars

\* C17 witness: D has just been enqueued while Z, put at the front by
\* Interrupt, was pending; Z is now behind D.
C17_Witness ==
    /\ pc["timer"] = "a66"
    /\ arg["timer"] = "D"
    /\ queue = <<"D", "Z">>
    /\ submitted["Z"] = 1

\* No playback is in progress: nothing is current and every playback thread
\* that exists has left line 108 behind.
NoPlaybackInProgress ==
    /\ current_announcement = None
    /\ \A t \in Threads :
          \/ pc[t] \in {"unborn", "dead", "raised"}
          \/ (pc[t] = "t81" /\ ret[t] = "dead")

\* C18: a _try_play_next that is entered while no playback is in progress and
\* the pending list is not empty does not return at its first test: it goes
\* on to dequeue the head.
C18_TryStartNextStartsWhenIdle ==
    [][\A p \in Procs :
          (pc[p] = "t81" /\ pc'[p] # "t81" /\ queue # <<>> /\ NoPlaybackInProgress)
              => pc'[p] = "t83"]_vars

\* The Interrupt call under way has dequeued: it is between lines 85 and 89.
InterruptHasDequeued == pc["live"] \in {"t86", "t87", "t88", "t89"}

Running == {t \in Threads : pc[t] \notin {"unborn", "new", "dead", "raised"}}

C20_StopRequestedIffPlaying ==
    [][\A p \in Procs :
          (pc[p] = "i70" /\ pc'[p] = "i77")
              => IF NoPlaybackInProgress
                 THEN stop_requested' = stop_requested /\ interrupted' = interrupted
                 ELSE stop_requested' /\ interrupted']_vars

\* C21: the playTime of an announcement handed to the engine never decreases;
\* it changes only in the step of the completion handling of a recurring
\* announcement that reschedules it (lines 104-105), by one day (daily) or one
\* week (weekly); the playTime of a one-shot announcement never changes.  (A
\* live announcement gets its playTime when it is constructed, before it is
\* handed to the engine.)
C21_PlayTimeMovesOnlyByReschedule ==
    [][\A a \in Anns :
           (submitted[a] > 0 \/ a \in Sched) =>
               /\ play_time'[a] >= play_time[a]
               /\ play_time'[a] # play_time[a] =>
                     /\ repeat[a] # None
                     /\ play_time'[a] = play_time[a] + SpecInterval(a)
                     /\ \E t \in Threads :
                            /\ arg[t] = a
                            /\ pc[t] = "w104"
                            /\ pc'[t] = "a62"]_vars

\* C21 witness: the daily B has been played and rescheduled and stands one day
\* after its first playTime, while the one-shot A has been played and kept its
\* own.
C21_Witness ==
    /\ repeat["B"] = "daily"
    /\ play_time["B"] = PlayTime0["B"] + DayInterval
    /\ Cardinality(PastReschedule("B")) = 1
    /\ \E t \in Threads : arg[t] = "A" /\ pc[t] = "dead"
    /\ play_time["A"] = PlayTime0["A"]

\* Playback threads whose announcement is recurring and was rescheduled by an
\* earlier completed playback, and which have not reached their own
\* reschedule (line 105): play_time is the rescheduled playTime T + interval
\* of the occurrence that finished before they were started.
ReplayingBeforeReschedule ==
    {t \in Created : /\ pc[t] \in {"new", "w93", "w99", "w104"}
                     /\ repeat[arg[t]] # None
                     /\ play_time[arg[t]] > PlayTime0[arg[t]]}

\* C22: after an occurrence of a recurring announcement finishes, its next
\* playback does not start before the rescheduled playTime is reached: no
\* clock reading taken after that playback was started (line 1004 or line
\* 991) is earlier than the rescheduled playTime.
C22_NextPlaybackNotBeforePlayTime ==
    [][\A p \in Callers :
           (pc[p] = "idle" /\ pc'[p] # "idle") =>
               \A t \in ReplayingBeforeReschedule : now' >= play_time[arg[t]]]_vars

\* The application, one timer tick before the last, with the scheduling the
\* interpreter gives its threads: a
\* thread inside a `with self.lock:` block is not suspended forever, it reaches
\* the end of the block (lines 62-65 and 70-76 make no blocking call).
InitFair == InitAfter(MaxTicks - 1, {<<"C", "A">>}, RepeatConfigs)

SpecFair ==
    /\ InitFair
    /\ [][Next]_vars
    /\ \A p \in Procs : WF_vars(add_release(p) \/ interrupt_release(p))

\* A process is about to execute a `with self.lock:` statement.
Acquiring(p) == pc[p] \in {"a62", "i70"}

\* C23: the engine never deadlocks on its lock: no process reaches a
\* `with self.lock:` statement while it holds the lock (the completion handler
\* calls add_announcement without holding it), a process waiting for the lock
\* waits for one that is inside a locked block, and every process that takes
\* the lock eventually releases it.
C23_LockNeverDeadlocks ==
    /\ [](\A p \in Procs :
             Acquiring(p) =>
                 /\ lock # p
                 /\ lock # None => pc[lock] \in {"a66", "i77"})
    /\ \A p \in Procs : (lock = p) ~> (lock # p)

\* C23 witness: a playback thread's completion handler is about to take the
\* lock for the re-enqueue of a recurring announcement while a caller holds
\* it inside Interrupt.
C23_Witness ==
    \E t \in Threads :
        /\ pc[t] = "a62"
        /\ repeat[arg[t]] # None
        /\ lock = "live"
        /\ pc["live"] = "i77"

\* Playback threads that were created and never started although the
\* _try_play_next that created them has gone past line 89.
NeverStarted ==
    {t \in Created : pc[t] = "new" /\ ~\E p \in Procs : pc[p] = "t89" /\ playing_thread = t}

\* C24: no announcement is lost.  Every submission of an announcement (by
\* Enqueue, by Interrupt, or by the re-enqueue of its completion handling) is
\* either on the pending list or was taken off it by a _try_play_next for a
\* playback thread, and every thread made for it is started; so the pending
\* list loses an element only to a worker.
C24_NoAnnouncementLost ==
    /\ \A a \in Anns :
           Count(queue, a) + Dequeued(a) = submitted[a] + Cardinality(PastReAdd(a))
    /\ NeverStarted = {}
    /\ \A p \in Procs : next_ann[p] # None => pc[p] \in {"t86", "t87", "t88"}

\* C24 witness: all three places are occupied at once: D is pending, the live
\* Z is with a speaking worker, and A was with a worker whose playback ended.
C24_Witness ==
    /\ Count(queue, "D") = 1
    /\ current_announcement = "Z"
    /\ \E t \in Threads : arg[t] = "Z" /\ pc[t] = "w99"
    /\ \E t \in Threads : arg[t] = "A" /\ pc[t] = "dead"
    /\ submitted["A"] = 1 /\ submitted["D"] = 1 /\ submitted["Z"] = 1

\* The playback thread an Interrupt found alive, while no playback has been
\* started since: interrupted is set at line 73 and cleared at line 87.
InterruptedThreads ==
    {t \in Created : interrupted /\ t = playing_thread}

\* C25: a one-shot announcement whose playback was cut short by Interrupt is
\* not resumed or replayed: once its completion handling has cleared current
\* it is neither pending, nor taken for playback, nor current.  The
\* interrupted flag does not change completion handling: an interrupted
\* recurring announcement is rescheduled by its interval and put back on the
\* pending list.
C25_InterruptedNeverResumed ==
    \A t \in InterruptedThreads :
        LET a == arg[t]
        IN /\ (repeat[a] = None /\ pc[t] \in {"t81", "dead"}) =>
                  /\ Count(queue, a) = 0
                  /\ \A p \in Procs : next_ann[p] # a
                  /\ current_announcement # a
           /\ (repeat[a] # None /\ pc[t] \in {"w108", "t81", "dead"}) =>
                  /\ play_time[a] = PlayTime0[a] + SpecInterval(a) * Cardinality(PastReschedule(a))
                  /\ Count(queue, a) > 0 \/ \E p \in Procs : next_ann[p] = a

\* C25 witness: the one-shot A was stopped by an Interrupt while it was being
\* spoken, its thread has ended before the Interrupt call reached
\* _try_play_next, and the live announcement is what is pending.
C25_Witness ==
    \E t \in InterruptedThreads :
        /\ arg[t] = "A"
        /\ pc[t] = "dead"
        /\ found_speaking
        /\ pc["live"] = "t81"
        /\ queue = <<"Z">>

\* C26: _try_play_next never executes pop(0) (line 85) on an empty pending
\* list, whichever way the steps of concurrent Enqueue and Interrupt callers
\* and of playback threads interleave.
C26_NeverPopsEmptyList ==
    [][\A p \in Procs :
           (pc[p] = "t85" /\ pc'[p] # "t85") => queue # <<>>]_vars

====
